---- MODULE Spec2Model ----
(***************************************************************************)
(* Model of scripts/order_executor.py: one invocation of main(), which     *)
(* reads one JSON document from stdin, dispatches on its action and writes *)
(* one JSON document to stdout.                                            *)
(*                                                                         *)
(* JSON values are records [t, n, s]: t is the JSON type tag, n the number *)
(* (booleans are 0/1, decimal numbers are counted in units of 10^-5), s the    *)
(* characters of a string.  A field of the input document is fixed the     *)
(* first time the program reads it; until then it is "unread", so the      *)
(* variable data also records which fields the program has touched.        *)
(* Python floats are modelled by exact decimals; where round() sits on a   *)
(* decimal tie the binary double may lie on either side, and both results  *)
(* are allowed.                                                            *)
(***************************************************************************)
EXTENDS Integers, Sequences, FiniteSets, TLC

VARIABLES
    pc,              \* position in main / the called handler
    doc,             \* what stdin holds: "empty", "malformed", "array", "object"
    sdk,             \* whether the hyperliquid SDK can be imported
    data,            \* input_data: field name -> JSON value ("unread" until first read)
    action,          \* main: action
    is_testnet,      \* handler local: is_testnet (a JSON value)
    base_url,        \* handler local: base_url ("none", "TESTNET", "MAINNET")
    api_wallet_key,  \* handler local
    secret_key,      \* handler local
    account_address, \* handler local
    wallet,          \* handler local: the key characters the wallet was derived from
    exchange,        \* handler local: the Exchange object [signer, net, account]
    info,            \* handler local: the network of the Info object ("none" before it exists)
    order,           \* execute_order locals: asset, is_buy, size, reduce_only, order_type_str, market_price, price, px, tif
    result,          \* main: result (the client's native response)
    exc,             \* the exception in flight: [type, msg]
    calls,           \* external calls made so far, in order
    stdout,          \* documents printed so far
    exitCode         \* -1 while running, then the process exit code

vars == <<pc, doc, sdk, data, action, is_testnet, base_url, api_wallet_key,
          secret_key, account_address, wallet, exchange, info, order, result,
          exc, calls, stdout, exitCode>>

----------------------------------------------------------------------------
(* Bounds of the model *)

MaxSize == 1        \* sizes range over -MaxSize..MaxSize whole units
MaxMidSteps == 1    \* reference prices k * 67 for k in 1..MaxMidSteps (and 2000, 99.6)
MaxOrderId == 1     \* order ids 1..MaxOrderId

----------------------------------------------------------------------------
(* JSON values *)

J(t, n, s) == [t |-> t, n |-> n, s |-> s]
Unread == J("unread", 0, <<>>)
Absent == J("absent", 0, <<>>)
Null   == J("null", 0, <<>>)
JTrue  == J("bool", 1, <<>>)
JFalse == J("bool", 0, <<>>)
Num(n) == J("num", n, <<>>)
Str(s) == J("str", 0, s)

RECURSIVE Pow10(_)
Pow10(k) == IF k = 0 THEN 1 ELSE 10 * Pow10(k - 1)

Scale == Pow10(5)   \* decimal numbers are counted in units of 10^-5

\* Python truth value of a JSON value (None for an absent key read with .get)
Truthy(v) ==
    CASE v.t = "bool" -> v.n = 1
      [] v.t = "num"  -> v.n # 0
      [] v.t = "str"  -> Len(v.s) > 0
      [] OTHER        -> FALSE

\* dict.get(key): an absent key reads as None
GetNone(v) == IF v.t = "absent" THEN Null ELSE v

\* dict.get(key, default)
GetDefault(v, d) == IF v.t = "absent" THEN d ELSE v

----------------------------------------------------------------------------
(* Strings *)

S_order       == <<"o","r","d","e","r">>
S_cancel      == <<"c","a","n","c","e","l">>
S_positions   == <<"p","o","s","i","t","i","o","n","s">>
S_open_orders == <<"o","p","e","n","_","o","r","d","e","r","s">>
S_bogus       == <<"b","u","y">>
S_MARKET      == <<"M","A","R","K","E","T">>
S_market      == <<"m","a","r","k","e","t">>
S_LIMIT       == <<"L","I","M","I","T">>
S_Gtc         == <<"G","t","c">>
S_Ioc         == <<"I","o","c">>
S_Alo         == <<"A","l","o">>
S_ETH         == <<"E","T","H">>

\* str.upper() on one character and on a string
UpperChar(c) ==
    CASE c = "m" -> "M" [] c = "a" -> "A" [] c = "r" -> "R" [] c = "k" -> "K"
      [] c = "e" -> "E" [] c = "t" -> "T" [] c = "l" -> "L" [] c = "i" -> "I"
      [] OTHER -> c
Upper(s) == [i \in 1..Len(s) |-> UpperChar(s[i])]

\* str.startswith('0x') and the slice [2:]
StartsWith0x(s) == Len(s) >= 2 /\ s[1] = "0" /\ s[2] = "x"
StripPrefix(s) == IF StartsWith0x(s) THEN SubSeq(s, 3, Len(s)) ELSE s

----------------------------------------------------------------------------
(* float(): decimal strings to units of 10^-5 *)

Digits == {"0","1","2","3","4","5","6","7","8","9"}
DigitVal(c) ==
    CASE c = "0" -> 0 [] c = "1" -> 1 [] c = "2" -> 2 [] c = "3" -> 3
      [] c = "4" -> 4 [] c = "5" -> 5 [] c = "6" -> 6 [] c = "7" -> 7
      [] c = "8" -> 8 [] c = "9" -> 9

RECURSIVE DigitsVal(_)
DigitsVal(s) == IF s = <<>> THEN 0
                ELSE 10 * DigitsVal(SubSeq(s, 1, Len(s) - 1)) + DigitVal(s[Len(s)])

AllDigits(s) == \A i \in 1..Len(s) : s[i] \in Digits
DotAt(s) == IF \E i \in 1..Len(s) : s[i] = "."
            THEN CHOOSE i \in 1..Len(s) : s[i] = "." /\ \A j \in 1..(i-1) : s[j] # "."
            ELSE Len(s) + 1
Unsigned(s) == IF Len(s) > 0 /\ s[1] = "-" THEN SubSeq(s, 2, Len(s)) ELSE s
IntPart(s)  == SubSeq(Unsigned(s), 1, DotAt(Unsigned(s)) - 1)
FracPart(s) == SubSeq(Unsigned(s), DotAt(Unsigned(s)) + 1, Len(Unsigned(s)))

\* the strings float() accepts (decimal notation, at most five decimals here)
IsDecimal(s) ==
    /\ AllDigits(IntPart(s)) /\ AllDigits(FracPart(s))
    /\ Len(IntPart(s)) + Len(FracPart(s)) > 0
    /\ Len(FracPart(s)) <= 5

ParseDecimal(s) ==
    LET mag == DigitsVal(IntPart(s)) * Scale
               + DigitsVal(FracPart(s)) * Pow10(5 - Len(FracPart(s)))
    IN IF Len(s) > 0 /\ s[1] = "-" THEN 0 - mag ELSE mag

\* float(v) for a JSON value: whether it raises, and its value in units of 10^-5
FloatOk(v) == \/ v.t = "num" \/ v.t = "bool" \/ (v.t = "str" /\ IsDecimal(v.s))
FloatOf(v) == IF v.t = "str" THEN ParseDecimal(v.s)
              ELSE IF v.t = "bool" THEN v.n * Scale ELSE v.n

----------------------------------------------------------------------------
(* Price policy: execute_order lines 133-154 *)

SlippageMilli == 5        \* slippage = 0.005
RoundThreshold == 100     \* round(price, 2) if price > 100 else round(price, 4)

\* An unrounded price is w + f/d counted in 10^-4, with 0 <= f < d (the
\* products do not fit TLC's integers otherwise); a rounded price is an
\* integer count of 10^-4.
Tick == Pow10(4)

\* a variant that pads every order upwards, as for a buy
SlippedUpOnly(mid, isBuy) ==
    LET F == 1000 + SlippageMilli
        q == mid \div 10000
        r == mid % 10000
    IN [w |-> F * q + (F * r) \div 10000, f |-> (F * r) % 10000, d |-> 10000]

\* price = market_price * (1 + slippage) / market_price * (1 - slippage)
Slipped(mid, isBuy) ==
    LET F == IF isBuy THEN 1000 + SlippageMilli ELSE 1000 - SlippageMilli
        q == mid \div 10000
        r == mid % 10000
    IN [w |-> F * q + (F * r) \div 10000, f |-> (F * r) % 10000, d |-> 10000]

\* price = float(data['price'])
Explicit(p) == [w |-> p \div 10, f |-> p % 10, d |-> 10]

\* the integers nearest to q + r/u: one, or the two neighbours of a decimal tie
Nearest(q, r, u) ==
    IF 2 * r < u THEN {q}
    ELSE IF 2 * r > u THEN {q + 1}
    ELSE {q, q + 1}

\* price > 100
ExceedsThreshold(price) ==
    \/ price.w > RoundThreshold * Tick
    \/ price.w = RoundThreshold * Tick /\ price.f > 0

\* round(price, 2) if price > 100 else round(price, 4), in 10^-4
Rounded(price) ==
    IF ExceedsThreshold(price)
    THEN LET c == price.w \div 100
         IN {100 * n : n \in Nearest(c, (price.w - 100 * c) * price.d + price.f,
                                     100 * price.d)}
    ELSE Nearest(price.w, price.f, price.d)

\* a variant that fetches the market price for every order
AlwaysUsesMarketPrice(order_type_str, price) == TRUE

\* order_type_str == 'MARKET' or not data.get('price')
UsesMarketPrice(order_type_str, price) ==
    order_type_str = S_MARKET \/ ~Truthy(GetNone(price))

\* tif = 'Ioc' if order_type_str == 'MARKET' else data.get('timeInForce', 'Gtc')
Tif(order_type_str, timeInForce) ==
    IF order_type_str = S_MARKET THEN Str(S_Ioc)
    ELSE GetDefault(timeInForce, Str(S_Gtc))

----------------------------------------------------------------------------
(* Credentials and the SDK objects *)

HexChars == {"a", "b"}

\* Account.from_key accepts hex digits, with or without a 0x prefix
KeyBytes(k) == IF Len(k) >= 2 /\ k[1] = "0" /\ k[2] \in {"x", "X"}
               THEN SubSeq(k, 3, Len(k)) ELSE k
ValidKey(k) == KeyBytes(k) # <<>> /\ \A i \in 1..Len(KeyBytes(k)) : KeyBytes(k)[i] \in HexChars

\* wallet.address: the address that belongs to a private key
AddressOf(k) == <<"@">> \o KeyBytes(k)

\* base_url = constants.TESTNET_API_URL if is_testnet else constants.MAINNET_API_URL
BaseUrl(isTestnet) == IF Truthy(isTestnet) THEN "TESTNET" ELSE "MAINNET"

\* Exchange(wallet, base_url, account_address=...): the account the client acts for
NoAccount == <<>>

\* a variant that never passes account_address
ExchangeOfWalletOnly(w, url, acct) == [signer |-> w, net |-> url, account |-> NoAccount]

ExchangeOf(w, url, acct) == [signer |-> w, net |-> url, account |-> acct]
ActsFor(ex) == IF ex.account = NoAccount THEN AddressOf(ex.signer) ELSE ex.account

----------------------------------------------------------------------------
(* The input document and the outside world *)

Fields == {"action", "isTestnet", "apiWalletPrivateKey", "hyperliquidPrivateKey",
           "hyperliquidAddress", "asset", "isBuy", "size", "reduceOnly",
           "orderType", "price", "timeInForce", "orderId"}

K_a   == <<"a">>                 \* a main-account key, bare
K_0xa == <<"0","x","a">>         \* the same key with the 0x prefix
K_0xb == <<"0","x","b">>         \* an API-wallet key
A_a   == AddressOf(K_a)          \* the address of key a
A_m   == <<"@","m">>             \* a main account whose key is not in the input

Dom(f) ==
    CASE f = "action" ->
            {Absent, Null, Str(S_order), Str(S_cancel), Str(S_positions),
             Str(S_open_orders), Str(S_bogus)}
      [] f = "isTestnet" -> {Absent, Null, JTrue, JFalse}
      [] f = "apiWalletPrivateKey" -> {Absent, Str(<<>>), Str(K_0xb)}
      [] f = "hyperliquidPrivateKey" -> {Absent, Str(<<>>), Str(K_0xa), Str(K_a)}
      [] f = "hyperliquidAddress" -> {Absent, Str(A_a), Str(A_m)}
      [] f = "asset" -> {Absent, Str(<<>>), Str(S_ETH)}
      [] f = "isBuy" -> {Absent, JTrue, JFalse}
      [] f = "size" ->
            {Absent} \cup {Num(k * Scale) : k \in (0 - MaxSize)..MaxSize}
      [] f = "reduceOnly" -> {Absent, JTrue}
      [] f = "orderType" -> {Absent, Str(S_MARKET), Str(S_market), Str(S_LIMIT)}
      [] f = "price" ->
            {Absent, Num(0), Str(<<"0">>), Num(0 - 5 * Scale),
             Str(<<"0",".","0","0","0","0","1">>), Num(15025500)}
      [] f = "timeInForce" -> {Absent, Str(S_Ioc), Str(S_Alo)}
      [] f = "orderId" -> {Absent} \cup {Num(k) : k \in 1..MaxOrderId}

\* the mid prices the feed may quote for the asset, in units of 10^-5
MidPrices == {2000 * Scale, 9960000} \cup {k * 67 * Scale : k \in 1..MaxMidSteps}

\* what the exchange client may answer
OrderResponses  == {[status |-> "ok", response |-> "order"],
                    [status |-> "err", response |-> "rejected"]}
CancelResponses == {[status |-> "ok", response |-> "cancel"],
                    [status |-> "err", response |-> "never placed"]}
StateResponses  == {[status |-> "state", response |-> "assetPositions"]}
OpenResponses   == {[status |-> "list", response |-> "orders"]}
NoResult        == [status |-> "none", response |-> "none"]

\* the failure document of main
Envelope(msg) == [status |-> "error", message |-> msg]

\* one external call; fields that a call does not have keep their fillers
Call(op, net) ==
    [op |-> op, net |-> net, signer |-> <<>>, account |-> <<>>, asset |-> Null,
     is_buy |-> Null, sz |-> 0, px |-> 0, tif |-> Null, reduce_only |-> Null,
     oid |-> Null, failed |-> FALSE]

\* the same call when it, or the lookup in its answer, raises
Failed(c) == [c EXCEPT !.failed = TRUE]

NoOrder == [asset |-> Null, is_buy |-> Null, size |-> 0, reduce_only |-> Null,
            order_type_str |-> <<>>, market_price |-> 0, price |-> Explicit(0), px |-> 0,
            tif |-> Null]

\* str(value) as it appears in a message
Render(v) == IF v.t = "str" THEN v.s ELSE IF v.t = "null" THEN <<"None">> ELSE <<"?">>

Init ==
    /\ pc = "import"
    /\ doc \in {"empty", "malformed", "array", "object"}
    /\ sdk \in BOOLEAN
    /\ data = [f \in Fields |-> Unread]
    /\ action = Null
    /\ is_testnet = Null
    /\ base_url = "none"
    /\ api_wallet_key = Null
    /\ secret_key = Null
    /\ account_address = Null
    /\ wallet = <<>>
    /\ exchange = ExchangeOf(<<>>, "none", NoAccount)
    /\ info = "none"
    /\ order = NoOrder
    /\ result = NoResult
    /\ exc = [type |-> "none", msg |-> <<>>]
    /\ calls = <<>>
    /\ stdout = <<>>
    /\ exitCode = -1

----------------------------------------------------------------------------
(* Reading the input document and raising *)

\* the value of field f, fixed on first read
Read(f, v) == v \in Dom(f) /\ (data[f] # Unread => v = data[f])

Raise(type, msg) ==
    /\ exc' = [type |-> type, msg |-> msg]
    /\ pc' = "except"

KeyError(f) == Raise("KeyError", <<"'", f, "'">>)

locals == <<is_testnet, base_url, api_wallet_key, secret_key, account_address,
            wallet, exchange, info, order>>
world  == <<calls, stdout, exitCode, result>>
input  == <<doc, sdk>>

----------------------------------------------------------------------------
(* Module import and main(): lines 21-30 and 273-315 *)

\* lines 21-30
ImportSdk ==
    /\ pc = "import"
    /\ IF sdk
       THEN pc' = "read" /\ UNCHANGED <<stdout, exitCode>>
       ELSE /\ stdout' = Append(stdout, Envelope(<<"hyperliquid-python-sdk not installed">>))
            /\ exitCode' = 1
            /\ pc' = "done"
    /\ UNCHANGED <<input, data, action, locals, calls, result, exc>>

\* lines 277-279
ReadStdin ==
    /\ pc = "read"
    /\ IF doc = "empty"
       THEN Raise("ValueError", <<"No input provided via stdin">>)
       ELSE pc' = "parse" /\ UNCHANGED exc
    /\ UNCHANGED <<input, data, action, locals, world>>

\* line 281
ParseJson ==
    /\ pc = "parse"
    /\ IF doc = "malformed"
       THEN Raise("JSONDecodeError", <<"Expecting value">>)
       ELSE pc' = "action" /\ UNCHANGED exc
    /\ UNCHANGED <<input, data, action, locals, world>>

\* line 284
SelectAction ==
    /\ pc = "action"
    /\ IF doc = "array"
       THEN /\ Raise("AttributeError", <<"'list' object has no attribute 'get'">>)
            /\ UNCHANGED <<data, action>>
       ELSE \E v \in Dom("action") :
              /\ Read("action", v)
              /\ data' = [data EXCEPT !["action"] = v]
              /\ action' = GetDefault(v, Str(S_order))
              /\ pc' = "dispatch"
              /\ UNCHANGED exc
    /\ UNCHANGED <<input, locals, world>>

\* a variant that treats every unrecognised action as an order
HandlerFallsBackToOrder(a) ==
    CASE a = Str(S_cancel)      -> "co_net"
      [] a = Str(S_positions)   -> "gp_net"
      [] a = Str(S_open_orders) -> "go_net"
      [] OTHER                  -> "eo_net"

\* lines 286-295
Handler(a) ==
    CASE a = Str(S_order)       -> "eo_net"
      [] a = Str(S_cancel)      -> "co_net"
      [] a = Str(S_positions)   -> "gp_net"
      [] a = Str(S_open_orders) -> "go_net"
      [] OTHER                  -> "unknown"

Dispatch ==
    /\ pc = "dispatch"
    /\ IF Handler(action) = "unknown"
       THEN Raise("ValueError", <<"Unknown action: ">> \o Render(action))
       ELSE pc' = Handler(action) /\ UNCHANGED exc
    /\ UNCHANGED <<input, data, action, locals, world>>

\* line 298
PrintResult ==
    /\ pc = "output"
    /\ stdout' = Append(stdout, result)
    /\ exitCode' = 0
    /\ pc' = "done"
    /\ UNCHANGED <<input, data, action, locals, calls, result, exc>>

\* lines 300-306
ExceptJSONDecodeError ==
    /\ pc = "except"
    /\ exc.type = "JSONDecodeError"
    /\ stdout' = Append(stdout, Envelope(<<"Invalid JSON input: ">> \o exc.msg))
    /\ exitCode' = 1
    /\ pc' = "done"
    /\ UNCHANGED <<input, data, action, locals, calls, result, exc>>

\* a variant in which the error leaves main: exit code 1, nothing printed
ExceptionEscapes ==
    /\ pc = "except"
    /\ exc.type # "JSONDecodeError"
    /\ exitCode' = 1
    /\ pc' = "done"
    /\ UNCHANGED <<input, data, action, locals, calls, stdout, result, exc>>

\* lines 308-315
ExceptException ==
    /\ pc = "except"
    /\ exc.type # "JSONDecodeError"
    /\ stdout' = Append(stdout, Envelope(exc.msg))
    /\ exitCode' = 1
    /\ pc' = "done"
    /\ UNCHANGED <<input, data, action, locals, calls, result, exc>>

----------------------------------------------------------------------------
(* Steps shared by the handlers, each instantiated at its own lines *)

\* is_testnet = data.get('isTestnet', True); base_url = ...
ResolveNet(here, next) ==
    /\ pc = here
    /\ \E v \in Dom("isTestnet") :
         /\ Read("isTestnet", v)
         /\ data' = [data EXCEPT !["isTestnet"] = v]
         /\ is_testnet' = GetDefault(v, JTrue)
         /\ base_url' = BaseUrl(GetDefault(v, JTrue))
    /\ pc' = next
    /\ UNCHANGED <<input, action, api_wallet_key, secret_key, account_address,
                   wallet, exchange, info, order, world, exc>>

\* api_wallet_key = data.get('apiWalletPrivateKey'); if api_wallet_key: ... else: ...
ReadCredentials(here, next) ==
    /\ pc = here
    /\ \E k \in Dom("apiWalletPrivateKey"), a \in Dom("hyperliquidAddress") :
         /\ Read("apiWalletPrivateKey", k)
         /\ Read("hyperliquidAddress", a)
         /\ api_wallet_key' = GetNone(k)
         /\ IF Truthy(GetNone(k))
            THEN /\ secret_key' = GetNone(k)
                 /\ data' = [data EXCEPT !["apiWalletPrivateKey"] = k,
                                         !["hyperliquidAddress"] = a]
            ELSE \E h \in Dom("hyperliquidPrivateKey") :
                 /\ Read("hyperliquidPrivateKey", h)
                 /\ secret_key' = GetNone(h)
                 /\ data' = [data EXCEPT !["apiWalletPrivateKey"] = k,
                                         !["hyperliquidPrivateKey"] = h,
                                         !["hyperliquidAddress"] = a]
         /\ IF a = Absent
            THEN KeyError("hyperliquidAddress") /\ UNCHANGED account_address
            ELSE account_address' = a /\ pc' = next /\ UNCHANGED exc
    /\ UNCHANGED <<input, action, is_testnet, base_url, wallet, exchange, info,
                   order, world>>

\* if secret_key.startswith('0x'): secret_key = secret_key[2:]
StripKey(here, next) ==
    /\ pc = here
    /\ IF secret_key.t # "str"
       THEN /\ Raise("AttributeError", <<"'NoneType' object has no attribute 'startswith'">>)
            /\ UNCHANGED secret_key
       ELSE /\ secret_key' = Str(StripPrefix(secret_key.s))
            /\ pc' = next
            /\ UNCHANGED exc
    /\ UNCHANGED <<input, data, action, is_testnet, base_url, api_wallet_key,
                   account_address, wallet, exchange, info, order, world>>

\* wallet = Account.from_key(secret_key)
DeriveWallet(here, next) ==
    /\ pc = here
    /\ IF ValidKey(secret_key.s)
       THEN wallet' = secret_key.s /\ pc' = next /\ UNCHANGED exc
       ELSE /\ Raise("ValueError", <<"The private key must be exactly 32 bytes long">>)
            /\ UNCHANGED wallet
    /\ UNCHANGED <<input, data, action, is_testnet, base_url, api_wallet_key,
                   secret_key, account_address, exchange, info, order, world>>

\* if api_wallet_key: Exchange(wallet, base_url, account_address=account_address)
\* else: Exchange(wallet, base_url); the constructor contacts base_url and may fail
InitExchange(here, next) ==
    /\ pc = here
    /\ \/ /\ exchange' = ExchangeOf(wallet, base_url,
                                     IF Truthy(api_wallet_key) THEN account_address.s
                                     ELSE NoAccount)
          /\ calls' = Append(calls, Call("Exchange", base_url))
          /\ pc' = next
          /\ UNCHANGED exc
       \/ /\ Raise("ConnectionError", <<"exchange client: connection failed">>)
          /\ calls' = Append(calls, Failed(Call("Exchange", base_url)))
          /\ UNCHANGED exchange
    /\ UNCHANGED <<input, data, action, is_testnet, base_url, api_wallet_key,
                   secret_key, account_address, wallet, info, order, stdout,
                   exitCode, result>>

----------------------------------------------------------------------------
(* execute_order: lines 58-169 *)

EoNet      == ResolveNet("eo_net", "eo_cred")          \* lines 80-81
EoCred     == ReadCredentials("eo_cred", "eo_check")   \* lines 87-97

\* lines 99-100
EoCheck ==
    /\ pc = "eo_check"
    /\ IF ~Truthy(secret_key)
       THEN Raise("ValueError", <<"No private key provided (neither apiWalletPrivateKey nor hyperliquidPrivateKey)">>)
       ELSE pc' = "eo_strip" /\ UNCHANGED exc
    /\ UNCHANGED <<input, data, action, locals, world>>

EoStrip    == StripKey("eo_strip", "eo_wallet")        \* lines 103-104
EoWallet   == DeriveWallet("eo_wallet", "eo_exchange") \* line 113
EoExchange == InitExchange("eo_exchange", "eo_asset")  \* lines 115-123

\* data[f]: KeyError when the key is absent
ReadParam(here, f, v) ==
    /\ pc = here
    /\ Read(f, v)
    /\ data' = [data EXCEPT ![f] = v]
    /\ UNCHANGED <<input, action, is_testnet, base_url, api_wallet_key,
                   secret_key, account_address, wallet, exchange, info, world>>

\* line 126
EoAsset ==
    \E v \in Dom("asset") :
      /\ ReadParam("eo_asset", "asset", v)
      /\ IF v = Absent THEN KeyError("asset") /\ UNCHANGED order
         ELSE order' = [order EXCEPT !.asset = v] /\ pc' = "eo_isbuy" /\ UNCHANGED exc

\* line 127
EoIsBuy ==
    \E v \in Dom("isBuy") :
      /\ ReadParam("eo_isbuy", "isBuy", v)
      /\ IF v = Absent THEN KeyError("isBuy") /\ UNCHANGED order
         ELSE order' = [order EXCEPT !.is_buy = v] /\ pc' = "eo_size" /\ UNCHANGED exc

\* line 128
EoSize ==
    \E v \in Dom("size") :
      /\ ReadParam("eo_size", "size", v)
      /\ IF v = Absent THEN KeyError("size") /\ UNCHANGED order
         ELSE IF ~FloatOk(v)
         THEN Raise("ValueError", <<"could not convert string to float">>) /\ UNCHANGED order
         ELSE order' = [order EXCEPT !.size = FloatOf(v)] /\ pc' = "eo_reduce" /\ UNCHANGED exc

\* line 129
EoReduceOnly ==
    \E v \in Dom("reduceOnly") :
      /\ ReadParam("eo_reduce", "reduceOnly", v)
      /\ order' = [order EXCEPT !.reduce_only = GetDefault(v, JFalse)]
      /\ pc' = "eo_type"
      /\ UNCHANGED exc

\* line 130
EoOrderType ==
    \E v \in Dom("orderType") :
      /\ ReadParam("eo_type", "orderType", v)
      /\ IF GetDefault(v, Str(S_LIMIT)).t # "str"
         THEN Raise("AttributeError", <<"object has no attribute 'upper'">>) /\ UNCHANGED order
         ELSE /\ order' = [order EXCEPT !.order_type_str = Upper(GetDefault(v, Str(S_LIMIT)).s)]
              /\ pc' = "eo_price"
              /\ UNCHANGED exc

\* lines 133 and 147 (the market branch continues in get_market_price)
EoPrice ==
    /\ pc = "eo_price"
    /\ IF order.order_type_str = S_MARKET
       THEN pc' = "gmp_info" /\ UNCHANGED <<data, order, exc>>
       ELSE \E v \in Dom("price") :
              /\ Read("price", v)
              /\ data' = [data EXCEPT !["price"] = v]
              /\ IF UsesMarketPrice(order.order_type_str, v)
                 THEN pc' = "gmp_info" /\ UNCHANGED <<order, exc>>
                 ELSE IF ~FloatOk(v)
                 THEN Raise("ValueError", <<"could not convert string to float">>)
                      /\ UNCHANGED order
                 ELSE /\ order' = [order EXCEPT !.price = Explicit(FloatOf(v))]
                      /\ pc' = "eo_round"
                      /\ UNCHANGED exc
    /\ UNCHANGED <<input, action, is_testnet, base_url, api_wallet_key, secret_key,
                   account_address, wallet, exchange, info, world>>

\* a variant that calls get_market_price(asset) and so takes is_testnet = False
GmpInfoDefaultNet ==
    /\ pc = "gmp_info"
    /\ \/ /\ info' = BaseUrl(JFalse)
          /\ calls' = Append(calls, Call("Info", BaseUrl(JFalse)))
          /\ pc' = "gmp_mids"
          /\ UNCHANGED exc
       \/ /\ Raise("ConnectionError", <<"info client: connection failed">>)
          /\ calls' = Append(calls, Failed(Call("Info", BaseUrl(JFalse))))
          /\ UNCHANGED info
    /\ UNCHANGED <<input, data, action, is_testnet, base_url, api_wallet_key,
                   secret_key, account_address, wallet, exchange, order, stdout,
                   exitCode, result>>

\* get_market_price, lines 44-45: Info(base_url, skip_ws=True) for the is_testnet passed in
GmpInfo ==
    /\ pc = "gmp_info"
    /\ \/ /\ info' = BaseUrl(is_testnet)
          /\ calls' = Append(calls, Call("Info", BaseUrl(is_testnet)))
          /\ pc' = "gmp_mids"
          /\ UNCHANGED exc
       \/ /\ Raise("ConnectionError", <<"info client: connection failed">>)
          /\ calls' = Append(calls, Failed(Call("Info", BaseUrl(is_testnet))))
          /\ UNCHANGED info
    /\ UNCHANGED <<input, data, action, is_testnet, base_url, api_wallet_key,
                   secret_key, account_address, wallet, exchange, order, stdout,
                   exitCode, result>>

\* get_market_price, lines 48-55
GmpAllMids ==
    /\ pc = "gmp_mids"
    /\ \/ \E mid \in MidPrices :
            /\ order.asset = Str(S_ETH)
            /\ order' = [order EXCEPT !.market_price = mid]
            /\ calls' = Append(calls, Call("all_mids", info))
            /\ pc' = "eo_slip"
            /\ UNCHANGED exc
       \/ /\ Raise("ValueError", <<"Asset ">> \o Render(order.asset) \o <<" not found in market data">>)
          /\ calls' = Append(calls, Failed(Call("all_mids", info)))
          /\ UNCHANGED order
       \/ /\ Raise("ConnectionError", <<"info client: request failed">>)
          /\ calls' = Append(calls, Failed(Call("all_mids", info)))
          /\ UNCHANGED order
    /\ UNCHANGED <<input, data, action, is_testnet, base_url, api_wallet_key,
                   secret_key, account_address, wallet, exchange, info, stdout,
                   exitCode, result>>

\* lines 139-145
EoSlippage ==
    /\ pc = "eo_slip"
    /\ order' = [order EXCEPT !.price = Slipped(order.market_price, Truthy(order.is_buy))]
    /\ pc' = "eo_round"
    /\ UNCHANGED <<input, data, action, is_testnet, base_url, api_wallet_key,
                   secret_key, account_address, wallet, exchange, info, world, exc>>

\* line 150
EoRound ==
    /\ pc = "eo_round"
    /\ \E px \in Rounded(order.price) : order' = [order EXCEPT !.px = px]
    /\ pc' = "eo_tif"
    /\ UNCHANGED <<input, data, action, is_testnet, base_url, api_wallet_key,
                   secret_key, account_address, wallet, exchange, info, world, exc>>

\* lines 153-154
EoTif ==
    /\ pc = "eo_tif"
    /\ IF order.order_type_str = S_MARKET
       THEN /\ order' = [order EXCEPT !.tif = Tif(order.order_type_str, Absent)]
            /\ UNCHANGED data
       ELSE \E v \in Dom("timeInForce") :
              /\ Read("timeInForce", v)
              /\ data' = [data EXCEPT !["timeInForce"] = v]
              /\ order' = [order EXCEPT !.tif = Tif(order.order_type_str, v)]
    /\ pc' = "eo_submit"
    /\ UNCHANGED <<input, action, is_testnet, base_url, api_wallet_key, secret_key,
                   account_address, wallet, exchange, info, world, exc>>

\* lines 159-169
EoSubmit ==
    /\ pc = "eo_submit"
    /\ LET c == [Call("order", exchange.net) EXCEPT
                   !.signer = exchange.signer, !.account = ActsFor(exchange),
                   !.asset = order.asset, !.is_buy = order.is_buy,
                   !.sz = order.size, !.px = order.px, !.tif = order.tif,
                   !.reduce_only = order.reduce_only]
       IN \/ \E r \in OrderResponses :
               /\ result' = r
               /\ calls' = Append(calls, c)
               /\ pc' = "output"
               /\ UNCHANGED exc
          \/ /\ Raise("ExchangeError", <<"exchange client: order failed">>)
             /\ calls' = Append(calls, Failed(c))
             /\ UNCHANGED result
    /\ UNCHANGED <<input, data, action, locals, stdout, exitCode>>

----------------------------------------------------------------------------
(* cancel_order: lines 172-218 *)

CoNet      == ResolveNet("co_net", "co_cred")          \* lines 187-188
CoCred     == ReadCredentials("co_cred", "co_strip")   \* lines 190-196
CoStrip    == StripKey("co_strip", "co_wallet")        \* lines 198-199
CoWallet   == DeriveWallet("co_wallet", "co_exchange") \* line 202
CoExchange == InitExchange("co_exchange", "co_asset")  \* lines 204-207

\* line 209
CoAsset ==
    \E v \in Dom("asset") :
      /\ ReadParam("co_asset", "asset", v)
      /\ IF v = Absent THEN KeyError("asset") /\ UNCHANGED order
         ELSE order' = [order EXCEPT !.asset = v] /\ pc' = "co_oid" /\ UNCHANGED exc

\* lines 210-218
CoSubmit ==
    /\ pc = "co_oid"
    /\ \E v \in Dom("orderId") :
         /\ Read("orderId", v)
         /\ data' = [data EXCEPT !["orderId"] = v]
         /\ IF v = Absent
            THEN KeyError("orderId") /\ UNCHANGED <<calls, result>>
            ELSE LET c == [Call("cancel", exchange.net) EXCEPT
                                !.signer = exchange.signer,
                                !.account = ActsFor(exchange),
                                !.asset = order.asset, !.oid = v]
                 IN \/ \E r \in CancelResponses :
                         /\ result' = r
                         /\ calls' = Append(calls, c)
                         /\ pc' = "output"
                         /\ UNCHANGED exc
                    \/ /\ Raise("ExchangeError", <<"exchange client: cancel failed">>)
                       /\ calls' = Append(calls, Failed(c))
                       /\ UNCHANGED result
    /\ UNCHANGED <<input, action, locals, stdout, exitCode>>

----------------------------------------------------------------------------
(* get_positions and get_open_orders: lines 221-270 *)

\* account_address = data['hyperliquidAddress']
ReadAddress(here, next) ==
    /\ pc = here
    /\ \E a \in Dom("hyperliquidAddress") :
         /\ Read("hyperliquidAddress", a)
         /\ data' = [data EXCEPT !["hyperliquidAddress"] = a]
         /\ IF a = Absent
            THEN KeyError("hyperliquidAddress") /\ UNCHANGED account_address
            ELSE account_address' = a /\ pc' = next /\ UNCHANGED exc
    /\ UNCHANGED <<input, action, is_testnet, base_url, api_wallet_key, secret_key,
                   wallet, exchange, info, order, world>>

\* info = Info(base_url, skip_ws=True)
InitInfo(here, next) ==
    /\ pc = here
    /\ \/ /\ info' = base_url
          /\ calls' = Append(calls, Call("Info", base_url))
          /\ pc' = next
          /\ UNCHANGED exc
       \/ /\ Raise("ConnectionError", <<"info client: connection failed">>)
          /\ calls' = Append(calls, Failed(Call("Info", base_url)))
          /\ UNCHANGED info
    /\ UNCHANGED <<input, data, action, is_testnet, base_url, api_wallet_key,
                   secret_key, account_address, wallet, exchange, order, stdout,
                   exitCode, result>>

\* info.user_state(account_address) / info.open_orders(account_address)
Query(here, op, responses) ==
    /\ pc = here
    /\ LET c == [Call(op, info) EXCEPT !.account = account_address.s]
       IN \/ \E r \in responses :
               /\ result' = r
               /\ calls' = Append(calls, c)
               /\ pc' = "output"
               /\ UNCHANGED exc
          \/ /\ Raise("ExchangeError", <<"info client: request failed">>)
             /\ calls' = Append(calls, Failed(c))
             /\ UNCHANGED result
    /\ UNCHANGED <<input, data, action, locals, stdout, exitCode>>

GpNet   == ResolveNet("gp_net", "gp_addr")                   \* lines 233-234
GpAddr  == ReadAddress("gp_addr", "gp_info")                 \* line 236
GpInfo  == InitInfo("gp_info", "gp_query")                   \* line 240
GpQuery == Query("gp_query", "user_state", StateResponses)   \* lines 241-244

GoNet   == ResolveNet("go_net", "go_addr")                   \* lines 259-260
GoAddr  == ReadAddress("go_addr", "go_info")                 \* line 262
GoInfo  == InitInfo("go_info", "go_query")                   \* line 266
GoQuery == Query("go_query", "open_orders", OpenResponses)   \* lines 267-270

----------------------------------------------------------------------------

Next ==
    \/ ImportSdk \/ ReadStdin \/ ParseJson \/ SelectAction \/ Dispatch
    \/ PrintResult \/ ExceptJSONDecodeError \/ ExceptException
    \/ EoNet \/ EoCred \/ EoCheck \/ EoStrip \/ EoWallet \/ EoExchange
    \/ EoAsset \/ EoIsBuy \/ EoSize \/ EoReduceOnly \/ EoOrderType \/ EoPrice
    \/ GmpInfo \/ GmpAllMids \/ EoSlippage \/ EoRound \/ EoTif \/ EoSubmit
    \/ CoNet \/ CoCred \/ CoStrip \/ CoWallet \/ CoExchange \/ CoAsset \/ CoSubmit
    \/ GpNet \/ GpAddr \/ GpInfo \/ GpQuery
    \/ GoNet \/ GoAddr \/ GoInfo \/ GoQuery

Spec == Init /\ [][Next]_vars

TypeOK ==
    /\ exitCode \in {-1, 0, 1}
    /\ Len(stdout) <= 1
    /\ base_url \in {"none", "TESTNET", "MAINNET"}

----------------------------------------------------------------------------
(* Vocabulary of the properties *)

Done == pc = "done"
CallsOf(op) == {i \in 1..Len(calls) : calls[i].op = op}
Placed == CallsOf("order") \cup CallsOf("cancel")
WasRead(f) == data[f] # Unread

\* the request asks for a market order: orderType is MARKET in some letter case
MarketRequested == data["orderType"] \in {Str(S_MARKET), Str(S_market)}

\* the input carries no usable key of either kind
NoKeyGiven ==
    /\ data["apiWalletPrivateKey"] \in {Absent, Str(<<>>)}
    /\ data["hyperliquidPrivateKey"] \in {Absent, Str(<<>>)}

\* |px - F * mid / 1000| <= 1/2 tick, with px in 10^-4 and mid in 10^-5,
\* written so that no product leaves the integers TLC has
NearestTick(px, mid, F) ==
    LET q == mid \div 10000
        r == mid % 10000
        e == 10000 * (px - F * q) - F * r
    IN e >= -5000 /\ e <= 5000

\* px is a whole number of cents and |px - F * mid / 1000| <= 1/2 cent
NearestCent(px, mid, F) ==
    LET c == px \div 100
        q == mid \div 1000000
        r == mid % 1000000
        e == 1000000 * (c - F * q) - F * r
    IN px = 100 * c /\ e >= -500000 /\ e <= 500000

\* F * mid / 1000 > 100, that is mid > 10^10 / F in units of 10^-5
PaddedExceeds100(mid, F) == mid > (2 * Pow10(9)) \div (F \div 5)

----------------------------------------------------------------------------
(* C1: every MARKET order (any letter case) is submitted at the mid price   *)
(* times 1.005 for a buy and 0.995 for a sell, rounded to 2 decimals when   *)
(* the padded price exceeds 100 and to 4 decimals otherwise, with           *)
(* time-in-force Ioc.  The program never reads price or timeInForce of such *)
(* a request, so this holds whatever the caller supplied for them.          *)
C1_MarketOrderPriceAndTif ==
    \A i \in CallsOf("order") :
      MarketRequested =>
        LET c == calls[i]
            F == IF data["isBuy"] = JTrue THEN 1005 ELSE 995
            mid == order.market_price
        IN /\ c.tif = Str(S_Ioc)
           /\ mid \in MidPrices
           /\ IF PaddedExceeds100(mid, F) THEN NearestCent(c.px, mid, F)
              ELSE NearestTick(c.px, mid, F)
           /\ ~WasRead("price") /\ ~WasRead("timeInForce")

C1_Witness ==
    /\ Done /\ exitCode = 0
    /\ data["orderType"] = Str(S_market)
    /\ data["isBuy"] = JFalse
    /\ order.market_price = 9960000
    /\ \E i \in CallsOf("order") : calls[i].px = 991020 /\ calls[i].tif = Str(S_Ioc)

(* C2: an order request with a buy side, direct credentials and no          *)
(* orderType, price, timeInForce or reduceOnly, at a reference price of     *)
(* 2000, is submitted with price 2010.00, time-in-force Ioc and             *)
(* reduceOnly false.                                                        *)
C2_DefaultOrderIsIoc ==
    \A i \in CallsOf("order") :
      ( /\ data["action"] = Str(S_order)
        /\ data["isBuy"] = JTrue
        /\ ~Truthy(GetNone(data["apiWalletPrivateKey"]))
        /\ data["orderType"] = Absent /\ data["price"] = Absent
        /\ data["timeInForce"] = Absent /\ data["reduceOnly"] = Absent
        /\ data["asset"] = Str(S_ETH) /\ data["size"] = Num(Scale)
        /\ order.market_price = 2000 * Scale )
      => /\ calls[i].px = 2010 * Tick
         /\ calls[i].tif = Str(S_Ioc)
         /\ calls[i].reduce_only = JFalse

(* C3: for action order and cancel, an input with neither private key ends  *)
(* with the failure envelope saying that no private key was provided, exit  *)
(* code 1, and no call to the exchange client or the market-data feed.      *)
(* (Stated for inputs that do carry hyperliquidAddress.)                    *)
C3_MissingKeyReported ==
    ( /\ Done
      /\ action \in {Str(S_order), Str(S_cancel)}
      /\ NoKeyGiven
      /\ data["hyperliquidAddress"] \in {Str(A_a), Str(A_m)} )
    => /\ stdout = <<Envelope(<<"No private key provided (neither apiWalletPrivateKey nor hyperliquidPrivateKey)">>)>>
       /\ exitCode = 1
       /\ calls = <<>>

(* C4: an input whose action is none of order, cancel, positions,           *)
(* open_orders ends with the failure envelope whose message names the       *)
(* action value, exit code 1, no private key read, no wallet derived and no *)
(* external call.                                                           *)
UnknownActionGiven ==
    /\ WasRead("action")
    /\ data["action"] \notin {Absent, Str(S_order), Str(S_cancel), Str(S_positions),
                               Str(S_open_orders)}

C4_UnknownActionRejected ==
    UnknownActionGiven =>
      /\ calls = <<>>
      /\ ~WasRead("apiWalletPrivateKey") /\ ~WasRead("hyperliquidPrivateKey")
      /\ wallet = <<>>
      /\ pc \in {"dispatch", "except", "done"}
      /\ Done =>
           /\ exitCode = 1
           /\ Len(stdout) = 1
           /\ stdout[1].status = "error"
           /\ stdout[1].message[1] = "Unknown action: "
           /\ Tail(stdout[1].message) =
                 (IF data["action"].t = "str" THEN data["action"].s ELSE <<"None">>)

C4_Witness ==
    /\ Done
    /\ data["action"] = Str(S_bogus)
    /\ stdout = <<Envelope(<<"Unknown action: ", "b", "u", "y">>)>>

(* C5: every invocation writes exactly one document: the client's native    *)
(* response unchanged with exit code 0, or the two-field envelope           *)
(* {status: "error", message} with exit code 1; nothing is written and no   *)
(* exit code is set before that.                                            *)
C5_OneDocument ==
    /\ ~Done => stdout = <<>> /\ exitCode = -1
    /\ Done =>
         /\ Len(stdout) = 1
         /\ \/ /\ exitCode = 0
               /\ stdout[1] = result
               /\ result \in OrderResponses \cup CancelResponses \cup StateResponses
                                \cup OpenResponses
               /\ exc.type = "none"
               /\ calls # <<>> /\ ~calls[Len(calls)].failed
            \/ /\ exitCode = 1
               /\ DOMAIN stdout[1] = {"status", "message"}
               /\ stdout[1].status = "error"
               /\ Len(stdout[1].message) > 0
               /\ result = NoResult

C5_Witness ==
    /\ Done /\ exitCode = 0
    /\ stdout = <<[status |-> "err", response |-> "rejected"]>>

(* C6: every order submitted to the exchange client has a strictly positive *)
(* price, whatever price the caller supplied and whatever the reference     *)
(* price is.                                                                *)
C6_PricePositive ==
    \A i \in CallsOf("order") : calls[i].px > 0

(* C7: an order request whose size is zero or negative, or whose asset is   *)
(* empty, fails with an error envelope and exchange.order is never called   *)
(* for it.                                                                  *)
C7_SizeAndAssetValidated ==
    ( /\ action = Str(S_order)
      /\ \/ data["asset"] = Str(<<>>)
         \/ data["size"].t = "num" /\ data["size"].n <= 0 )
    => /\ CallsOf("order") = {}
       /\ Done => exitCode = 1 /\ stdout[1].status = "error"

(* C8: every order or cancel that reaches the exchange client is attributed *)
(* to the supplied hyperliquidAddress, with a direct key as well as with a  *)
(* delegated key, and is signed by the wallet of the key with a leading 0x  *)
(* removed.                                                                 *)
KeyGiven ==
    IF Truthy(GetNone(data["apiWalletPrivateKey"]))
    THEN data["apiWalletPrivateKey"].s ELSE data["hyperliquidPrivateKey"].s

SignedByStrippedKey(c) ==
    /\ ~(Len(c.signer) >= 2 /\ c.signer[1] = "0" /\ c.signer[2] = "x")
    /\ KeyGiven \in {c.signer, <<"0", "x">> \o c.signer}

C8_AttributedToSuppliedAddress ==
    \A i \in Placed :
      /\ calls[i].account = data["hyperliquidAddress"].s
      /\ SignedByStrippedKey(calls[i])

(* C8 as amended: with a delegated key (apiWalletPrivateKey non-empty,      *)
(* which takes precedence) the order or cancel is attributed to the         *)
(* supplied hyperliquidAddress; with a direct key the client is built from  *)
(* the wallet alone and the action is attributed to the address of that     *)
(* key, whatever hyperliquidAddress says (it only has to be present); in    *)
(* both modes the signing wallet is the key with a leading 0x removed.      *)
C8_AttributedPerCredentialMode ==
    \A i \in Placed :
      /\ SignedByStrippedKey(calls[i])
      /\ data["hyperliquidAddress"].t = "str"
      /\ IF data["apiWalletPrivateKey"] \notin {Absent, Str(<<>>)}
         THEN /\ calls[i].account = data["hyperliquidAddress"].s
              /\ ~WasRead("hyperliquidPrivateKey")
         ELSE calls[i].account = <<"@">> \o calls[i].signer

C8_Witness ==
    /\ Done
    /\ data["apiWalletPrivateKey"] = Absent
    /\ data["hyperliquidPrivateKey"] = Str(K_0xa)
    /\ data["hyperliquidAddress"] = Str(A_m)
    /\ \E i \in CallsOf("cancel") : calls[i].account = A_a /\ calls[i].signer = K_a

(* C9: the external calls of one invocation happen in a fixed order and at  *)
(* most once each.  No credential is read before the input is parsed and    *)
(* the action selected.  For an order the market-data fetch is made only    *)
(* when orderType is MARKET or the request has no price (absent, or a zero  *)
(* or empty value), after the wallet and the exchange client exist and      *)
(* before the one exchange.order call; nothing is called after a call has   *)
(* failed.  A cancel makes no market-data fetch and, when it succeeds,      *)
(* exactly one exchange.cancel call.  positions and open_orders read no     *)
(* private key, make no order or cancel call and, when they succeed,        *)
(* exactly one query call.                                                  *)
Ops == {"Exchange", "Info", "all_mids", "order", "cancel", "user_state", "open_orders"}
OpsInOrder == [i \in 1..Len(calls) |-> calls[i].op]

OneNetwork == \A i, j \in 1..Len(calls) : calls[i].net = calls[j].net

C10_MainnetOnlyOnFalse ==
    /\ OneNetwork
    /\ \A i \in 1..Len(calls) :
         /\ data["isTestnet"] = Absent => calls[i].net = "TESTNET"
         /\ calls[i].net = "MAINNET" => data["isTestnet"] = JFalse

(* C10 as amended: every external call of one invocation targets the same   *)
(* network; with isTestnet absent or true that is the test network; the     *)
(* production network is contacted only when the input carries an isTestnet *)
(* field whose value is false or null (any value Python treats as false).   *)
C10_MainnetOnlyOnFalsy ==
    /\ OneNetwork
    /\ \A i \in 1..Len(calls) :
         /\ calls[i].net \in {"TESTNET", "MAINNET"}
         /\ data["isTestnet"] \in {Absent, JTrue} => calls[i].net = "TESTNET"
         /\ calls[i].net = "MAINNET" => data["isTestnet"] \in {JFalse, Null}

C10_Witness ==
    /\ Done
    /\ data["isTestnet"] = Null
    /\ \E i \in CallsOf("all_mids") : calls[i].net = "MAINNET"
    /\ \E i \in CallsOf("order") : calls[i].net = "MAINNET"

====
